---- MODULE Spec2Model ----
(***************************************************************************)
(* Model of the daily-menu analyzer: the two popularity scorers            *)
(* (analyzer.py analyze_menu_popularity, simple_analyzer.py                *)
(* analyze_menu_popularity_simple) and the two sales-pattern classifiers   *)
(* (analyze_sales_pattern, analyze_sales_pattern_simple).                  *)
(*                                                                         *)
(* A call is a state machine: one step per iteration of the function's     *)
(* `for date in sales_data['date'].unique()` loop, and a final return.     *)
(* An exception ends the call with pc its name: nothing is returned.       *)
(*                                                                         *)
(* Numbers.  The code computes in IEEE doubles; the model computes the     *)
(* same expressions in exact rationals extended with the two values a      *)
(* numpy division by zero produces (inf, nan).  Values are non-negative.   *)
(***************************************************************************)
EXTENDS Integers, Sequences, FiniteSets, TLC

VARIABLES sales_data, prepared_data, fn, pc, di, results, patterns, locals

vars == <<sales_data, prepared_data, fn, pc, di, results, patterns, locals>>

-----------------------------------------------------------------------------
(* Extended non-negative rationals *)

RECURSIVE GCD(_, _)
GCD(a, b) ==
    IF b = 0 THEN a ELSE GCD(b, a % b)

Fin(n, d) ==
    LET g == GCD(n, d) IN [k |-> "fin", n |-> n \div g, d |-> d \div g]

Inf ==
    [k |-> "inf", n |-> 0, d |-> 1]

NaN ==
    [k |-> "nan", n |-> 0, d |-> 1]

IsFinite(x) ==
    x.k = "fin"

FAdd(x, y) ==
    IF x.k = "nan" \/ y.k = "nan" THEN NaN
    ELSE IF x.k = "inf" \/ y.k = "inf" THEN Inf
    ELSE Fin(x.n * y.d + y.n * x.d, x.d * y.d)

FMul(x, y) ==
    IF x.k = "nan" \/ y.k = "nan" THEN NaN
    ELSE IF x.k = "inf" THEN (IF y.k = "fin" /\ y.n = 0 THEN NaN ELSE Inf)
    ELSE IF y.k = "inf" THEN (IF x.n = 0 THEN NaN ELSE Inf)
    ELSE Fin(x.n * y.n, x.d * y.d)

\* x < y as the doubles compare: every comparison with nan is false
FLess(x, y) ==
    IF x.k = "nan" \/ y.k = "nan" THEN FALSE
    ELSE IF x.k = "inf" THEN FALSE
    ELSE IF y.k = "inf" THEN TRUE
    ELSE x.n * y.d < y.n * x.d

FLeq(x, y) ==
    IF x.k = "nan" \/ y.k = "nan" THEN FALSE
    ELSE IF y.k = "inf" THEN TRUE
    ELSE IF x.k = "inf" THEN FALSE
    ELSE x.n * y.d <= y.n * x.d

\* numpy true division x / y (prepared_amount comes out of .iloc[0] as a
\* numpy scalar): a zero divisor gives inf or nan with a warning, no exception
NpDiv(x, y) ==
    IF x.k = "nan" \/ y.k = "nan" THEN NaN
    ELSE IF y.k = "inf" THEN (IF x.k = "inf" THEN NaN ELSE Fin(0, 1))
    ELSE IF y.n = 0 THEN (IF x.k = "fin" /\ x.n = 0 THEN NaN ELSE Inf)
    ELSE IF x.k = "inf" THEN Inf
    ELSE Fin(x.n * y.d, x.d * y.n)

\* Python int / int with b # 0 (b = 0 raises ZeroDivisionError, see PyDivRaises)
PyDiv(a, b) ==
    Fin(a, b)

PyDivRaises(a, b) ==
    b = 0

\* mutant of PyMin: the cap is lost
PyMinUncapped(x, y) ==
    x

\* Python min(x, y): y if y < x else x
PyMin(x, y) ==
    IF FLess(y, x) THEN y ELSE x

RECURSIVE FSum(_)
FSum(xs) ==
    IF xs = <<>> THEN Fin(0, 1) ELSE FAdd(Head(xs), FSum(Tail(xs)))

\* np.mean of a non-empty list
NpMean(xs) ==
    NpDiv(FSum(xs), Fin(Len(xs), 1))

\* round(x, 2) of a numpy double: rint(x * 100) / 100, halves to even
Round2(x) ==
    IF x.k # "fin" THEN x
    ELSE LET num == 100 * x.n
             q   == num \div x.d
             r   == num % x.d
             up  == (2 * r > x.d) \/ (2 * r = x.d /\ q % 2 = 1)
         IN Fin(IF up THEN q + 1 ELSE q, 100)

Hundred ==
    Fin(100, 1)

-----------------------------------------------------------------------------
(* Tables *)

TimeSlots ==
    <<"11:00-11:30", "11:30-12:00", "12:00-12:30", "12:30-13:00">>

\* mutant of time_weights: the last slot weighs 1.0
time_weights_last_full(slot) ==
    CASE slot = "11:00-11:30" -> Fin(2, 1)
      [] slot = "11:30-12:00" -> Fin(3, 2)
      [] slot = "12:00-12:30" -> Fin(1, 1)
      [] slot = "12:30-13:00" -> Fin(1, 1)

\* time_weights: 2.0, 1.5, 1.0, 0.5
time_weights(slot) ==
    CASE slot = "11:00-11:30" -> Fin(2, 1)
      [] slot = "11:30-12:00" -> Fin(3, 2)
      [] slot = "12:00-12:30" -> Fin(1, 1)
      [] slot = "12:30-13:00" -> Fin(1, 2)

\* Series.unique(): the distinct values in order of first appearance
RECURSIVE Unique(_)
Unique(xs) ==
    IF xs = <<>> THEN <<>>
    ELSE LET front == Unique(SubSeq(xs, 1, Len(xs) - 1))
             x     == xs[Len(xs)]
         IN IF \E j \in 1..Len(front) : front[j] = x THEN front
            ELSE Append(front, x)

DateColumn(table) ==
    [j \in 1..Len(table) |-> table[j].date]

\* sales_data['date'].unique()
Dates ==
    Unique(DateColumn(sales_data))

\* sales_data[sales_data['date'] == date]
MenuData(date) ==
    SelectSeq(sales_data, LAMBDA r : r.date = date)

\* mutant of PreparedRows: the date filter is lost
PreparedRowsAnyDate(date) ==
    prepared_data

\* prepared_data[prepared_data['date'] == date]
PreparedRows(date) ==
    SelectSeq(prepared_data, LAMBDA r : r.date = date)

\* .iloc[0] on an empty selection raises IndexError
PreparedMissing(date) ==
    PreparedRows(date) = <<>>

Prepared(date) ==
    PreparedRows(date)[1]

RECURSIVE SumInts(_)
SumInts(xs) ==
    IF xs = <<>> THEN 0 ELSE Head(xs) + SumInts(Tail(xs))

SalesColumn(rows) ==
    [j \in 1..Len(rows) |-> rows[j].daily_special_sales]

\* the rows of the first two slots add to early_sales
RECURSIVE EarlySales(_)
EarlySales(rows) ==
    IF rows = <<>> THEN 0
    ELSE (IF Head(rows).time_slot \in {"11:00-11:30", "11:30-12:00"}
          THEN Head(rows).daily_special_sales ELSE 0) + EarlySales(Tail(rows))

TotalSales(rows) ==
    SumInts(SalesColumn(rows))

-----------------------------------------------------------------------------
(* analyzer.py: analyze_menu_popularity *)

\* share = row['daily_special_sales'] / row['total_sales'] * 100 on the
\* Python ints iterrows() yields: a zero total_sales raises ZeroDivisionError
ShareRaises(rows) ==
    \E j \in 1..Len(rows) :
        PyDivRaises(rows[j].daily_special_sales, rows[j].total_sales)

Share(row) ==
    FMul(PyDiv(row.daily_special_sales, row.total_sales), Hundred)

RECURSIVE Shares(_)
Shares(rows) ==
    IF rows = <<>> THEN <<>>
    ELSE <<Share(Head(rows))>> \o Shares(Tail(rows))

\* weighted_score = share * time_weights[row['time_slot']], appended per row
Weighted(rows, shares) ==
    [j \in 1..Len(rows) |-> FMul(shares[j], time_weights(rows[j].time_slot))]

\* final_score = (time_score * 0.6 + sales_rate * 0.4) / 100
FinalScore(time_score, sales_rate) ==
    NpDiv(FAdd(FMul(time_score, Fin(3, 5)), FMul(sales_rate, Fin(2, 5))), Hundred)

\* the loop body's locals once the rows of the date are processed
DayLocals(date, rows, shares, total_prepared) ==
    LET time_scores == Weighted(rows, shares)
        time_score  == NpMean(time_scores)
        total_sales == TotalSales(rows)
        early_sales == EarlySales(rows)
        sales_rate  ==
            FMul(NpDiv(Fin(total_sales, 1), Fin(total_prepared, 1)), Hundred)
        early_sales_rate ==
            FMul(NpDiv(Fin(early_sales, 1), Fin(total_prepared, 1)), Hundred)
    IN [date |-> date, shares |-> shares, time_scores |-> time_scores,
        time_score |-> time_score, total_sales |-> total_sales,
        early_sales |-> early_sales, sales_rate |-> sales_rate,
        early_sales_rate |-> early_sales_rate,
        final_score |-> FinalScore(time_score, sales_rate)]

\* the dict appended to results
Summary(prepared, L) ==
    [date |-> L.date, menu_name |-> prepared.menu_name,
     prepared_amount |-> prepared.prepared_amount,
     total_sales |-> L.total_sales,
     sales_rate |-> Round2(L.sales_rate),
     early_sales_rate |-> Round2(L.early_sales_rate),
     time_weighted_score |-> Round2(L.time_score),
     final_score |-> Round2(L.final_score)]

NoLocals ==
    [date |-> 0, shares |-> <<>>, time_scores |-> <<>>,
     time_score |-> Fin(0, 1), total_sales |-> 0, early_sales |-> 0,
     sales_rate |-> Fin(0, 1), early_sales_rate |-> Fin(0, 1),
     final_score |-> Fin(0, 1)]

Running ==
    pc = "loop"

Returned ==
    pc = "returned"

Raised ==
    pc \in {"IndexError", "ZeroDivisionError"}

PopularityStep ==
    /\ fn = "analyze_menu_popularity"
    /\ Running
    /\ di <= Len(Dates)
    /\ LET date      == Dates[di]
           menu_data == MenuData(date)
       IN IF PreparedMissing(date)
          THEN /\ pc' = "IndexError"
               /\ UNCHANGED <<di, results, locals>>
          ELSE IF ShareRaises(menu_data)
          THEN /\ pc' = "ZeroDivisionError"
               /\ UNCHANGED <<di, results, locals>>
          ELSE LET prepared == Prepared(date)
                   L == DayLocals(date, menu_data, Shares(menu_data),
                                  prepared.prepared_amount)
               IN /\ results' = Append(results, Summary(prepared, L))
                  /\ locals' = L
                  /\ di' = di + 1
                  /\ pc' = pc
    /\ UNCHANGED <<sales_data, prepared_data, fn, patterns>>

\* return pd.DataFrame(results)
PopularityReturn ==
    /\ fn = "analyze_menu_popularity"
    /\ Running
    /\ di > Len(Dates)
    /\ pc' = "returned"
    /\ UNCHANGED <<sales_data, prepared_data, fn, di, results, patterns, locals>>

-----------------------------------------------------------------------------
(* simple_analyzer.py: analyze_menu_popularity_simple *)

\* max_possible_per_slot = total_prepared / len(time_weights)
MaxPossiblePerSlot(total_prepared) ==
    NpDiv(Fin(total_prepared, 1), Fin(Len(TimeSlots), 1))

\* sales_score = min(row['daily_special_sales'] / max_possible_per_slot * 100, 100)
SalesScore(row, max_possible_per_slot) ==
    PyMin(FMul(NpDiv(Fin(row.daily_special_sales, 1), max_possible_per_slot),
               Hundred),
          Hundred)

SalesScores(rows, total_prepared) ==
    [j \in 1..Len(rows) |-> SalesScore(rows[j], MaxPossiblePerSlot(total_prepared))]

PopularitySimpleStep ==
    /\ fn = "analyze_menu_popularity_simple"
    /\ Running
    /\ di <= Len(Dates)
    /\ LET date      == Dates[di]
           menu_data == MenuData(date)
       IN IF PreparedMissing(date)
          THEN /\ pc' = "IndexError"
               /\ UNCHANGED <<di, results, locals>>
          ELSE LET prepared == Prepared(date)
                   L == DayLocals(date, menu_data,
                                  SalesScores(menu_data, prepared.prepared_amount),
                                  prepared.prepared_amount)
               IN /\ results' = Append(results, Summary(prepared, L))
                  /\ locals' = L
                  /\ di' = di + 1
                  /\ pc' = pc
    /\ UNCHANGED <<sales_data, prepared_data, fn, patterns>>

PopularitySimpleReturn ==
    /\ fn = "analyze_menu_popularity_simple"
    /\ Running
    /\ di > Len(Dates)
    /\ pc' = "returned"
    /\ UNCHANGED <<sales_data, prepared_data, fn, di, results, patterns, locals>>

-----------------------------------------------------------------------------
(* analyzer.py: analyze_sales_pattern *)

Menus ==
    {"curry", "karaage"}

\* a key the dict does not hold
NoKey ==
    "<absent>"

\* sum(sales_pattern[:2])
SumFirstTwo(sales_pattern) ==
    SumInts(SubSeq(sales_pattern, 1, IF Len(sales_pattern) < 2
                                     THEN Len(sales_pattern) ELSE 2))

\* sum(sales_pattern[2:])
SumFromThird(sales_pattern) ==
    SumInts(SubSeq(sales_pattern, 3, Len(sales_pattern)))

\* sales_pattern[1] + sales_pattern[2] raises IndexError on fewer than 3 rows
MidPeakRaises(sales_pattern) ==
    Len(sales_pattern) < 3

MidPeak(sales_pattern) ==
    sales_pattern[2] + sales_pattern[3]

\* mutant of Pattern: the comparisons admit ties
PatternTiesEarly(sales_pattern) ==
    LET early_sales == SumFirstTwo(sales_pattern)
        late_sales  == SumFromThird(sales_pattern)
        mid_peak    == MidPeak(sales_pattern)
    IN IF early_sales >= late_sales /\ early_sales >= mid_peak THEN "early-heavy"
       ELSE IF mid_peak >= early_sales /\ mid_peak >= late_sales THEN "midday-heavy"
       ELSE "late-heavy"

\* labels: "early-heavy" is the code's 早い時間帯重視, "midday-heavy" its
\* お昼時重視, "late-heavy" its 後半に強い
Pattern(sales_pattern) ==
    LET early_sales == SumFirstTwo(sales_pattern)
        late_sales  == SumFromThird(sales_pattern)
        mid_peak    == MidPeak(sales_pattern)
    IN IF early_sales > late_sales /\ early_sales > mid_peak THEN "early-heavy"
       ELSE IF mid_peak > early_sales /\ mid_peak > late_sales THEN "midday-heavy"
       ELSE "late-heavy"

\* mutant of SetPattern: a key already present keeps its label
SetPatternKeepFirst(dict, menu_name, pattern) ==
    IF dict[menu_name] = NoKey THEN [dict EXCEPT ![menu_name] = pattern] ELSE dict

\* patterns[menu_name] = pattern
SetPattern(dict, menu_name, pattern) ==
    [dict EXCEPT ![menu_name] = pattern]

PatternStep ==
    /\ fn = "analyze_sales_pattern"
    /\ Running
    /\ di <= Len(Dates)
    /\ LET date          == Dates[di]
           menu_data     == MenuData(date)
           menu_name     == menu_data[1].menu_name
           sales_pattern == SalesColumn(menu_data)
       IN IF MidPeakRaises(sales_pattern)
          THEN /\ pc' = "IndexError"
               /\ UNCHANGED <<di, patterns>>
          ELSE /\ patterns' = SetPattern(patterns, menu_name, Pattern(sales_pattern))
               /\ di' = di + 1
               /\ pc' = pc
    /\ UNCHANGED <<sales_data, prepared_data, fn, results, locals>>

PatternReturn ==
    /\ fn = "analyze_sales_pattern"
    /\ Running
    /\ di > Len(Dates)
    /\ pc' = "returned"
    /\ UNCHANGED <<sales_data, prepared_data, fn, di, results, patterns, locals>>

-----------------------------------------------------------------------------
(* simple_analyzer.py: analyze_sales_pattern_simple *)

\* the double 0.45; a quotient of two small integers rounds to it only when it
\* is 9/20 exactly, so `x / total_sales > 0.45` is the exact comparison
Threshold ==
    Fin(9, 20)

\* mutant of PatternSimple: a ratio of exactly 0.45 qualifies
PatternSimpleAtLeast(sales_pattern) ==
    LET early_sales == SumFirstTwo(sales_pattern)
        mid_peak    == MidPeak(sales_pattern)
        total_sales == SumInts(sales_pattern)
    IN IF total_sales = 0 THEN "no-data"
       ELSE IF FLeq(Threshold, PyDiv(early_sales, total_sales)) THEN "early-favored"
       ELSE IF FLeq(Threshold, PyDiv(mid_peak, total_sales)) THEN "midday-favored"
       ELSE "balanced"

\* labels: "no-data" is the code's データなし, "early-favored" its 前半型,
\* "midday-favored" its 中間型, "balanced" its 分散型
PatternSimple(sales_pattern) ==
    LET early_sales == SumFirstTwo(sales_pattern)
        mid_peak    == MidPeak(sales_pattern)
        total_sales == SumInts(sales_pattern)
    IN IF total_sales = 0 THEN "no-data"
       ELSE IF FLess(Threshold, PyDiv(early_sales, total_sales)) THEN "early-favored"
       ELSE IF FLess(Threshold, PyDiv(mid_peak, total_sales)) THEN "midday-favored"
       ELSE "balanced"

PatternSimpleStep ==
    /\ fn = "analyze_sales_pattern_simple"
    /\ Running
    /\ di <= Len(Dates)
    /\ LET date          == Dates[di]
           menu_data     == MenuData(date)
           menu_name     == menu_data[1].menu_name
           sales_pattern == SalesColumn(menu_data)
       IN IF MidPeakRaises(sales_pattern)
          THEN /\ pc' = "IndexError"
               /\ UNCHANGED <<di, patterns>>
          ELSE /\ patterns' = SetPattern(patterns, menu_name,
                                         PatternSimple(sales_pattern))
               /\ di' = di + 1
               /\ pc' = pc
    /\ UNCHANGED <<sales_data, prepared_data, fn, results, locals>>

PatternSimpleReturn ==
    /\ fn = "analyze_sales_pattern_simple"
    /\ Running
    /\ di > Len(Dates)
    /\ pc' = "returned"
    /\ UNCHANGED <<sales_data, prepared_data, fn, di, results, patterns, locals>>

-----------------------------------------------------------------------------
(* Inputs: the two tables as read from the CSV files *)

\* largest daily_special_sales of a slot in the one-day grids
MaxSales ==
    6

MaxSpecial ==
    2

\* what a slot sells besides the daily special, when it sells anything else
OtherSales ==
    1

MaxPrepared ==
    8

\* most dates in a table of several days
MaxDays ==
    3

Canonical ==
    <<1, 2, 3, 4>>

\* the row orders of a complete day
Perms ==
    {p \in [1..4 -> 1..4] : \A i, j \in 1..4 : i # j => p[i] # p[j]}

\* the rows of one date: row k is the slot order[k]
DayRows(date, menu_name, order, special, total) ==
    [k \in 1..Len(order) |->
        [date |-> date, time_slot |-> TimeSlots[order[k]],
         daily_special_sales |-> special[order[k]],
         total_sales |-> total[order[k]], menu_name |-> menu_name]]

RECURSIVE Concat(_)
Concat(days) ==
    IF days = <<>> THEN <<>> ELSE Head(days) \o Concat(Tail(days))

\* the days one after the other, or with the first row of the last day put
\* first, so that the last day is the first date to appear
Table(days, interleaved) ==
    IF interleaved /\ Len(days) >= 2
    THEN LET last == days[Len(days)]
         IN <<Head(last)>> \o Concat(SubSeq(days, 1, Len(days) - 1)) \o Tail(last)
    ELSE Concat(days)

DateOf(k, n, descending) ==
    IF descending THEN n + 1 - k ELSE k

MenuOf(k) ==
    IF k % 2 = 1 THEN "curry" ELSE "karaage"

PlusOne(special) ==
    [k \in 1..4 |-> special[k] + 1]

\* one complete day in canonical order, every combination of small counts
GridInput ==
    \E sp \in [1..4 -> 0..MaxSpecial], ot \in [1..4 -> {0, OtherSales}],
       p \in 0..MaxPrepared :
        /\ sales_data = DayRows(1, "curry", Canonical, sp,
                                [k \in 1..4 |-> sp[k] + ot[k]])
        /\ prepared_data = <<[date |-> 1, menu_name |-> "curry", prepared_amount |-> p]>>

\* the day of the specification's example, its rows in any order; the
\* prepared table may hold a second record of the date
ExampleInput ==
    \E order \in Perms, twice \in BOOLEAN :
        /\ sales_data = DayRows(1, "curry", order, <<30, 20, 15, 5>>, <<75, 60, 50, 25>>)
        /\ prepared_data =
              <<[date |-> 1, menu_name |-> "curry", prepared_amount |-> 80]>>
              \o (IF twice
                  THEN <<[date |-> 1, menu_name |-> "karaage", prepared_amount |-> 40]>>
                  ELSE <<>>)

DayKinds ==
    {"full", "short", "nothing-sold"}

PrepKinds ==
    {"none", "one", "two"}

KindRows(date, menu_name, kind) ==
    CASE kind = "full" ->
            DayRows(date, menu_name, Canonical, <<2, 1, 1, 0>>, <<3, 2, 2, 1>>)
      [] kind = "short" ->
            DayRows(date, menu_name, <<1, 2>>, <<2, 1, 1, 0>>, <<3, 2, 2, 1>>)
      [] kind = "nothing-sold" ->
            DayRows(date, menu_name, Canonical, <<2, 1, 1, 0>>, <<3, 2, 2, 0>>)

KindPrepared(date, menu_name, prep) ==
    CASE prep = "none" -> <<>>
      [] prep = "one" ->
            <<[date |-> date, menu_name |-> menu_name, prepared_amount |-> 4]>>
      [] prep = "two" ->
            <<[date |-> date, menu_name |-> menu_name, prepared_amount |-> 4],
              [date |-> date, menu_name |-> menu_name, prepared_amount |-> 8]>>

\* several days, some incomplete, some without a prepared record
RaggedInput ==
    \E n \in 1..MaxDays :
      \E kind \in [1..n -> DayKinds], prep \in [1..n -> PrepKinds],
         descending \in BOOLEAN, interleaved \in BOOLEAN :
        /\ sales_data =
              Table([k \in 1..n |-> KindRows(DateOf(k, n, descending), MenuOf(k), kind[k])],
                    interleaved)
        /\ prepared_data =
              Concat([k \in 1..n |->
                        KindPrepared(DateOf(k, n, descending), MenuOf(k), prep[k])])

\* one complete day in canonical order, every 4-slot sales sequence
GridPatternInput ==
    \E sp \in [1..4 -> 0..MaxSales] :
        /\ sales_data = DayRows(1, "curry", Canonical, sp, PlusOne(sp))
        /\ prepared_data = <<>>

\* one complete day, its rows in any order
PermPatternInput ==
    \E order \in Perms, sp \in [1..4 -> 0..MaxSpecial] :
        /\ sales_data = DayRows(1, "curry", order, sp, PlusOne(sp))
        /\ prepared_data = <<>>

\* every row of a date carries the menu of that date (one special a day)
Shapes ==
    {"zero", "early", "mid", "short"}

ShapeRows(date, menu_name, shape) ==
    CASE shape = "zero" ->
            DayRows(date, menu_name, Canonical, <<0, 0, 0, 0>>, <<1, 1, 1, 1>>)
      [] shape = "early" ->
            DayRows(date, menu_name, Canonical, <<2, 1, 0, 0>>, <<3, 2, 1, 1>>)
      [] shape = "mid" ->
            DayRows(date, menu_name, Canonical, <<0, 2, 2, 0>>, <<1, 3, 3, 1>>)
      [] shape = "short" ->
            DayRows(date, menu_name, <<1, 2>>, <<2, 1, 0, 0>>, <<3, 2, 1, 1>>)

\* several days, a menu served on one or more of them
RaggedPatternInput ==
    \E n \in 1..MaxDays :
      \E shape \in [1..n -> Shapes], menu \in [1..n -> Menus],
         descending \in BOOLEAN, interleaved \in BOOLEAN :
        /\ sales_data =
              Table([k \in 1..n |-> ShapeRows(DateOf(k, n, descending), menu[k], shape[k])],
                    interleaved)
        /\ prepared_data = <<>>

Start ==
    /\ pc = "loop"
    /\ di = 1
    /\ results = <<>>
    /\ patterns = [m \in Menus |-> NoKey]
    /\ locals = NoLocals

InitPopularity ==
    /\ GridInput \/ ExampleInput \/ RaggedInput
    /\ fn \in {"analyze_menu_popularity", "analyze_menu_popularity_simple"}
    /\ Start

InitPattern ==
    /\ GridPatternInput \/ PermPatternInput \/ RaggedPatternInput
    /\ fn \in {"analyze_sales_pattern", "analyze_sales_pattern_simple"}
    /\ Start

Init ==
    InitPopularity \/ InitPattern

NextPopularity ==
    \/ PopularityStep
    \/ PopularityReturn
    \/ PopularitySimpleStep
    \/ PopularitySimpleReturn

NextPattern ==
    \/ PatternStep
    \/ PatternReturn
    \/ PatternSimpleStep
    \/ PatternSimpleReturn

Next ==
    NextPopularity \/ NextPattern

SpecPopularity ==
    InitPopularity /\ [][NextPopularity]_vars

SpecPattern ==
    InitPattern /\ [][NextPattern]_vars

Spec ==
    Init /\ [][Next]_vars

-----------------------------------------------------------------------------
(* Vocabulary of the properties *)

Scorers ==
    {"analyze_menu_popularity", "analyze_menu_popularity_simple"}

Classifiers ==
    {"analyze_sales_pattern", "analyze_sales_pattern_simple"}

SalesRows ==
    {sales_data[j] : j \in 1..Len(sales_data)}

SalesDates ==
    {r.date : r \in SalesRows}

HasPrepared(date) ==
    \E j \in 1..Len(prepared_data) : prepared_data[j].date = date

\* position of the first row of the date in the sales table
FirstRow(date) ==
    CHOOSE j \in 1..Len(sales_data) :
        /\ sales_data[j].date = date
        /\ \A i \in 1..(j - 1) : sales_data[i].date # date

\* the date has exactly one row for each of the four time slots
CompleteDay(date) ==
    /\ Cardinality({j \in 1..Len(sales_data) : sales_data[j].date = date}) = 4
    /\ \A s \in 1..4 :
          \E r \in SalesRows : r.date = date /\ r.time_slot = TimeSlots[s]

SlotRow(date, s) ==
    CHOOSE r \in SalesRows : r.date = date /\ r.time_slot = TimeSlots[s]

\* the mapping time_slot -> daily_special_sales of a complete day, as a sequence
SlotSales(date) ==
    [s \in 1..4 |-> SlotRow(date, s).daily_special_sales]

\* the date the loop has processed last
LastDate ==
    Dates[di - 1]

AllFinite(summary) ==
    /\ IsFinite(summary.sales_rate)
    /\ IsFinite(summary.early_sales_rate)
    /\ IsFinite(summary.time_weighted_score)
    /\ IsFinite(summary.final_score)

-----------------------------------------------------------------------------
(* C1 *)

\* C1: in both scorers a date of the sales rows without a prepared record ends
\* the call in an error: the loop never gets past the first such date, the call
\* never returns, and no summary is ever built for a date without a record.
C1_MissingPreparedRaises ==
    fn \in Scorers =>
        /\ \A j \in 1..Len(results) : HasPrepared(results[j].date)
        /\ \A d \in SalesDates :
              ~HasPrepared(d) =>
                  /\ ~Returned
                  /\ \A k \in 1..Len(Dates) : Dates[k] = d => di <= k

\* a second date lacks its record: the first date was scored, then the call raised
C1_Witness ==
    /\ fn \in Scorers
    /\ pc = "IndexError"
    /\ di = 2
    /\ Len(results) = 1
    /\ ~HasPrepared(Dates[2])

-----------------------------------------------------------------------------
(* C2 *)

ZeroTotalRow(date) ==
    \E r \in SalesRows : r.date = date /\ r.total_sales = 0

ZeroPrepared(date) ==
    ~PreparedMissing(date) /\ Prepared(date).prepared_amount = 0

\* C2: a zero denominator is an error, never a value: the ratio-mode scorer
\* does not return when a row has total_sales = 0, neither scorer returns when
\* a date's prepared_amount is 0, and every summary's four rates and scores
\* are finite numbers computed from non-zero denominators.
C2_ZeroDenominatorRaises ==
    fn \in Scorers =>
        /\ \A j \in 1..Len(results) :
              /\ AllFinite(results[j])
              /\ results[j].prepared_amount # 0
        /\ \A d \in SalesDates :
              (ZeroPrepared(d) \/ (fn = "analyze_menu_popularity" /\ ZeroTotalRow(d)))
                  => ~Returned

-----------------------------------------------------------------------------
(* C3 *)

\* C3: in both scorers a date without exactly one row per time slot is fatal:
\* no summary is built for it and the call does not return.
C3_IncompleteDayRaises ==
    fn \in Scorers =>
        /\ \A j \in 1..Len(results) : CompleteDay(results[j].date)
        /\ (\E d \in SalesDates : ~CompleteDay(d)) => ~Returned

-----------------------------------------------------------------------------
(* C4 *)

\* min(4 * sales / prepared * 100, 100) for prepared > 0, in integers
CappedShare(sales, prepared_amount) ==
    IF 4 * sales > prepared_amount THEN Hundred
    ELSE Fin(400 * sales, prepared_amount)

\* C4: in the target-mode scorer, for a date with prepared_amount > 0, every
\* row's share is min(sales / (prepared / 4) * 100, 100), every weighted score
\* is at most 100 times the slot weight, and the day's time_score is at most 125.
C4_TargetModeCapped ==
    (fn = "analyze_menu_popularity_simple" /\ locals.date # 0
        /\ Prepared(locals.date).prepared_amount > 0) =>
        LET rows == MenuData(locals.date)
            p    == Prepared(locals.date).prepared_amount
        IN /\ \A j \in 1..Len(rows) :
                 /\ locals.shares[j] = CappedShare(rows[j].daily_special_sales, p)
                 /\ FLeq(locals.shares[j], Hundred)
                 /\ FLeq(locals.time_scores[j],
                         FMul(Hundred, time_weights(rows[j].time_slot)))
           /\ FLeq(locals.time_score, Fin(125, 1))

-----------------------------------------------------------------------------
(* C5 *)

\* the label of variant B for a 4-slot sequence, in integers: x / total > 0.45
\* is 20 * x > 9 * total
LabelB(seq) ==
    LET early == seq[1] + seq[2]
        mid   == seq[2] + seq[3]
        total == seq[1] + seq[2] + seq[3] + seq[4]
    IN IF total = 0 THEN "no-data"
       ELSE IF 20 * early > 9 * total THEN "early-favored"
       ELSE IF 20 * mid > 9 * total THEN "midday-favored"
       ELSE "balanced"

\* C5: variant B labels the 4-row day it has just processed "no-data" when the
\* day's total is 0, else "early-favored" when early/total > 0.45, else
\* "midday-favored" when mid/total > 0.45, else "balanced" (seq in row order).
C5_VariantBLabel ==
    (fn = "analyze_sales_pattern_simple" /\ di > 1 /\ Len(MenuData(LastDate)) = 4) =>
        LET rows == MenuData(LastDate)
        IN patterns[rows[1].menu_name] = LabelB(SalesColumn(rows))

\* early and mid are both exactly 0.45 of the total: neither qualifies
C5_Witness ==
    /\ fn = "analyze_sales_pattern_simple"
    /\ di = 2
    /\ SalesColumn(sales_data) = <<5, 4, 5, 6>>
    /\ patterns["curry"] = "balanced"

-----------------------------------------------------------------------------
(* C6 *)

LabelA(seq) ==
    LET early == seq[1] + seq[2]
        late  == seq[3] + seq[4]
        mid   == seq[2] + seq[3]
    IN IF early > late /\ early > mid THEN "early-heavy"
       ELSE IF mid > early /\ mid > late THEN "midday-heavy"
       ELSE "late-heavy"

\* C6: variant A labels the 4-row day it has just processed "early-heavy" iff
\* early > late and early > mid, otherwise "midday-heavy" iff mid > early and
\* mid > late, otherwise "late-heavy"; ties and the all-zero day are
\* "late-heavy", and no 4-row day makes it raise.
C6_VariantALabel ==
    fn = "analyze_sales_pattern" =>
        /\ (di > 1 /\ Len(MenuData(LastDate)) = 4) =>
              LET rows == MenuData(LastDate)
              IN patterns[rows[1].menu_name] = LabelA(SalesColumn(rows))
        /\ (\A d \in SalesDates : Len(MenuData(d)) = 4) => ~Raised

\* the all-zero day falls to the default label
C6_Witness ==
    /\ fn = "analyze_sales_pattern"
    /\ Returned
    /\ SalesColumn(sales_data) = <<0, 0, 0, 0>>
    /\ patterns["curry"] = "late-heavy"

-----------------------------------------------------------------------------
(* C7 *)

\* C7: both classifiers label a complete day by its sales in canonical slot
\* order, whatever the order of the day's rows in the table.
C7_CanonicalOrder ==
    (fn \in Classifiers /\ di > 1 /\ CompleteDay(LastDate)) =>
        patterns[MenuData(LastDate)[1].menu_name] =
            (IF fn = "analyze_sales_pattern" THEN LabelA(SlotSales(LastDate))
             ELSE LabelB(SlotSales(LastDate)))

-----------------------------------------------------------------------------
(* C8 *)

MenuOfDate(date) ==
    sales_data[FirstRow(date)].menu_name

DatesOfMenu(m) ==
    {d \in SalesDates : MenuOfDate(d) = m}

\* among the dates of the menu, the one whose first row comes last
LastDateOfMenu(m) ==
    CHOOSE d \in DatesOfMenu(m) :
        \A e \in DatesOfMenu(m) : FirstRow(e) <= FirstRow(d)

LabelOfDate(date) ==
    IF fn = "analyze_sales_pattern" THEN LabelA(SalesColumn(MenuData(date)))
    ELSE LabelB(SalesColumn(MenuData(date)))

\* C8: the map a classifier returns holds, for every menu of the sales rows,
\* the label of the date of that menu that first appears last (also when that
\* date sold nothing), and no key for a menu that does not occur.
C8_LastDateWins ==
    (fn \in Classifiers /\ Returned) =>
        \A m \in Menus :
            IF DatesOfMenu(m) = {} THEN patterns[m] = NoKey
            ELSE patterns[m] = LabelOfDate(LastDateOfMenu(m))

\* a menu sold on an earlier date and not at all on its last date
C8_Witness ==
    /\ fn = "analyze_sales_pattern_simple"
    /\ Returned
    /\ Len(Dates) >= 2
    /\ patterns["curry"] = "no-data"
    /\ \E r \in SalesRows : r.menu_name = "curry" /\ r.daily_special_sales > 0

-----------------------------------------------------------------------------
(* C9 *)

SlotTotals(date) ==
    [s \in 1..4 |-> SlotRow(date, s).total_sales]

\* mean over the four slots of (sales / total * 100) * weight, weights 2.0,
\* 1.5, 1.0, 0.5, taken slot by slot
RatioTimeScore(date) ==
    LET sp == SlotSales(date)
        tt == SlotTotals(date)
    IN NpDiv(FAdd(FAdd(FMul(Fin(100 * sp[1], tt[1]), Fin(2, 1)),
                       FMul(Fin(100 * sp[2], tt[2]), Fin(3, 2))),
                  FAdd(FMul(Fin(100 * sp[3], tt[3]), Fin(1, 1)),
                       FMul(Fin(100 * sp[4], tt[4]), Fin(1, 2)))),
             Fin(4, 1))

\* C9: the ratio-mode scorer, on a complete day with prepared_amount > 0 (and
\* no zero total_sales), computes total_sales, early_sales, sales_rate,
\* early_sales_rate, time_score and final_score by the stated formulas; a call
\* that returns has built exactly one summary per distinct date; and the
\* example day gives 42.5, 70, 87.5, 62.5 and 0.605.
C9_RatioModeArithmetic ==
    fn = "analyze_menu_popularity" =>
        /\ (locals.date # 0 /\ CompleteDay(locals.date)
              /\ Prepared(locals.date).prepared_amount > 0) =>
              LET sp == SlotSales(locals.date)
                  p  == Prepared(locals.date).prepared_amount
                  ts == RatioTimeScore(locals.date)
              IN /\ locals.total_sales = sp[1] + sp[2] + sp[3] + sp[4]
                 /\ locals.early_sales = sp[1] + sp[2]
                 /\ locals.sales_rate = Fin(100 * (sp[1] + sp[2] + sp[3] + sp[4]), p)
                 /\ locals.early_sales_rate = Fin(100 * (sp[1] + sp[2]), p)
                 /\ locals.time_score = ts
                 /\ locals.final_score =
                       NpDiv(FAdd(FMul(ts, Fin(6, 10)),
                                  FMul(Fin(100 * (sp[1] + sp[2] + sp[3] + sp[4]), p),
                                       Fin(4, 10))),
                             Hundred)
                 /\ results[Len(results)].date = locals.date
                 /\ results[Len(results)].total_sales = sp[1] + sp[2] + sp[3] + sp[4]
        /\ Returned =>
              /\ Len(results) = Cardinality(SalesDates)
              /\ \A d \in SalesDates :
                    Cardinality({j \in 1..Len(results) : results[j].date = d}) = 1
        /\ (locals.date # 0 /\ CompleteDay(locals.date)
              /\ SlotSales(locals.date) = <<30, 20, 15, 5>>
              /\ SlotTotals(locals.date) = <<75, 60, 50, 25>>
              /\ Prepared(locals.date).prepared_amount = 80) =>
              /\ locals.time_score = Fin(85, 2)
              /\ locals.total_sales = 70
              /\ locals.sales_rate = Fin(175, 2)
              /\ locals.early_sales_rate = Fin(125, 2)
              /\ locals.final_score = Fin(605, 1000)

\* the example day, its rows not in canonical order, scored in ratio mode
C9_Witness ==
    /\ fn = "analyze_menu_popularity"
    /\ Returned
    /\ sales_data[1].time_slot = "12:30-13:00"
    /\ SlotSales(1) = <<30, 20, 15, 5>>
    /\ locals.time_score = Fin(85, 2)
    /\ locals.final_score = Fin(605, 1000)

-----------------------------------------------------------------------------
(* C10 *)

\* a complete day with a positive prepared amount and, in ratio mode, every
\* slot's special sales within its positive total sales
ValidDay(date) ==
    /\ CompleteDay(date)
    /\ Prepared(date).prepared_amount > 0
    /\ fn = "analyze_menu_popularity" =>
          \A r \in SalesRows :
              r.date = date => (r.total_sales > 0 /\ r.daily_special_sales <= r.total_sales)

WithinPreparation(date) ==
    TotalSales(MenuData(date)) <= Prepared(date).prepared_amount

\* C10 as stated: on a valid day whose total sales are at most the prepared
\* amount, 0 <= final_score <= 1.0; above 1.0 only when sales exceed preparation.
C10_AtMostOne ==
    (fn \in Scorers /\ locals.date # 0 /\ ValidDay(locals.date)) =>
        /\ WithinPreparation(locals.date) =>
              /\ FLeq(Fin(0, 1), locals.final_score)
              /\ FLeq(locals.final_score, Fin(1, 1))
        /\ FLess(Fin(1, 1), locals.final_score) => ~WithinPreparation(locals.date)

\* C10 amended: on a valid day whose total sales are at most the prepared
\* amount, 0 <= final_score <= 1.15 (= (125 * 0.6 + 100 * 0.4) / 100); above
\* 1.15 only when sales exceed preparation.
C10_AtMostWeightedBound ==
    (fn \in Scorers /\ locals.date # 0 /\ ValidDay(locals.date)) =>
        /\ WithinPreparation(locals.date) =>
              /\ FLeq(Fin(0, 1), locals.final_score)
              /\ FLeq(locals.final_score, Fin(115, 100))
        /\ FLess(Fin(115, 100), locals.final_score) => ~WithinPreparation(locals.date)

\* everything prepared is sold and every slot sells only the special: 1.15
C10_Witness ==
    /\ fn = "analyze_menu_popularity"
    /\ locals.date # 0
    /\ ValidDay(locals.date)
    /\ WithinPreparation(locals.date)
    /\ locals.final_score = Fin(115, 100)

====
